---- MODULE Spec2Model ----
(***************************************************************************)
(* A model of src/main.cpp: the shader file parser (ParseShader), the      *)
(* shader program builder (CompileShader, CreateShader, the GLCall error   *)
(* trap), the keyboard callback (keyCallback) and main's start-up, render  *)
(* loop and shutdown.                                                      *)
(*                                                                         *)
(* Lengths are counted in units of 0.5 (the camera step), so the eye       *)
(* position 5.0 is the integer 10 and one key press moves it by 1.  All    *)
(* values the program reaches are multiples of 0.5 far below 2^24, which   *)
(* both double and float represent exactly.                                *)
(*                                                                         *)
(* Specifications: Spec is the whole process (main), LiveSpec is Spec with *)
(* the progress of main's single thread, ParseSpec is one call of          *)
(* ParseShader on a bounded file.                                          *)
(***************************************************************************)
EXTENDS Integers, Sequences, FiniteSets, TLC

VARIABLES
    \* ---- the process (main) ----
    pc,             \* position of main
    exitCode,       \* value returned by main, meaningful when pc = "exited"
    failed,         \* the initialisation call that failed, or "none"
    glfw,           \* "uninit" | "init" | "terminated"
    window,         \* TRUE once glfwCreateWindow returned a window
    shouldClose,    \* the window's close flag
    trapResumes,    \* environment: a debugger intercepts SIGTRAP and resumes
    compiles,       \* environment: does the driver compile [file][stage]
    nextId,         \* next GL object name handed out by the driver
    programs,       \* GL program objects that exist
    linked,         \* GL program objects that linked
    stage,          \* CreateShader's locals vs, fs at its last call
    cubeShader, axesShader, pyramidShader,
    eye,            \* eyeX, eyeY, eyeZ
    view,           \* the global view matrix
    cubeMvp, pyramidMvp, axesMvp,
    frame,          \* GL / GLFW calls issued since the last glClear
    nEvents,        \* events delivered so far (bounded by MaxEvents)
    log,            \* distinct lines written to std::cout
    \* ---- one call of ParseShader ----
    pstream,        \* the lines of the file
    ppos,           \* number of lines getline has consumed
    ptype,          \* ShaderType: -1, 0, 1
    pss,            \* ss[0], ss[1]
    poob,           \* a write through ss[-1] has happened
    ppc,            \* "reading" | "returned" | "crashed"
    pret            \* the returned ShaderProgramSource

mainVars == <<pc, exitCode, failed, glfw, window, shouldClose, trapResumes, compiles,
              nextId, programs, linked, stage, cubeShader, axesShader,
              pyramidShader, eye, view, cubeMvp, pyramidMvp, axesMvp, frame,
              nEvents, log>>
parseVars == <<pstream, ppos, ptype, pss, poob, ppc, pret>>
vars == <<mainVars, parseVars>>

----------------------------------------------------------------------------
\* Bounds of the model.

\* Events delivered to the window in one run.
MaxEvents == 2
\* Lines of a shader file.
MaxLines == 5

----------------------------------------------------------------------------
\* Program constants.

\* eyeX = 5.0, eyeY = 3.0, eyeZ = 5.0, in units of 0.5.
EyeX0 == 10
EyeY0 == 6
EyeZ0 == 10
\* The camera step 0.5, in units of 0.5.
CameraStep == 1
\* Index counts of the two indexed draws.
CubeIndexCount == 36
PyramidIndexCount == 18
\* ShaderType
NONE == -1
VERTEX == 0
FRAGMENT == 1

Vec3(x, y, z) == [x |-> x, y |-> y, z |-> z]
Eye0 == Vec3(EyeX0, EyeY0, EyeZ0)
\* glm::vec3(0, 0, 0) and glm::vec3(0, 1, 0) in units of 0.5
Origin == Vec3(0, 0, 0)
Up == Vec3(0, 2, 0)

----------------------------------------------------------------------------
\* glm

Sub(a, b) == Vec3(a.x - b.x, a.y - b.y, a.z - b.z)
Cross(a, b) == Vec3(a.y * b.z - a.z * b.y,
                    a.z * b.x - a.x * b.z,
                    a.x * b.y - a.y * b.x)

\* glm::lookAt(eye, center, up): f = normalize(center - eye),
\* s = normalize(cross(f, up)), u = cross(s, f), translation by eye.  The
\* matrix is represented by its basis before normalisation and its eye.
LookAt(e, center, up) ==
    LET f == Sub(center, e)
        s == Cross(f, up)
        u == Cross(s, f)
    IN  [f |-> f, s |-> s, u |-> u, eye |-> e]

\* proj * view * model, kept as the three factors.
Mul3(p, v, m) == [proj |-> p, view |-> v, model |-> m]

Proj == "perspective(45deg, 1920/1080, 0.1, 100)"
CubeModel == "identity"
PyramidModel == "translate(2.5, 0, 1)"
\* proj * view (the axes have no model matrix)
Mul2(p, v) == [proj |-> p, view |-> v, model |-> "none"]

----------------------------------------------------------------------------
\* keyCallback

Keys == {"ESCAPE", "SPACE", "LEFT_CONTROL", "W", "S", "A", "D", "Q"}
KeyActions == {"PRESS", "RELEASE", "REPEAT"}

\* Mutant of MoveEye: the sign of the step is flipped.
MoveEyeWrongSign(s, axis, d) ==
    LET e == [s.eye EXCEPT ![axis] = @ - d]
    IN  [s EXCEPT !.eye = e, !.view = LookAt(e, Vec3(0, 0, 0), Vec3(0, 2, 0))]

\* Mutant of MoveEye: the view matrix is not recomputed.
MoveEyeStaleView(s, axis, d) ==
    [s EXCEPT !.eye = [s.eye EXCEPT ![axis] = @ + d]]

\* eyeA += d; view = glm::lookAt(vec3(eyeX, eyeY, eyeZ), vec3(0,0,0), vec3(0,1,0))
MoveEye(s, axis, d) ==
    LET e == [s.eye EXCEPT ![axis] = @ + d]
    IN  [s EXCEPT !.eye = e, !.view = LookAt(e, Vec3(0, 0, 0), Vec3(0, 2, 0))]

\* The body of keyCallback on the globals s = [shouldClose, eye, view]: seven
\* independent if statements, executed in order.
keyCallback(s, key, action) ==
    LET s1 == IF key = "ESCAPE" /\ action = "PRESS"
              THEN [s EXCEPT !.shouldClose = TRUE] ELSE s
        s2 == IF key = "SPACE" /\ action = "PRESS"
              THEN MoveEye(s1, "y", CameraStep) ELSE s1
        s3 == IF key = "LEFT_CONTROL" /\ action = "PRESS"
              THEN MoveEye(s2, "y", -CameraStep) ELSE s2
        s4 == IF key = "W" /\ action = "PRESS"
              THEN MoveEye(s3, "z", -CameraStep) ELSE s3
        s5 == IF key = "S" /\ action = "PRESS"
              THEN MoveEye(s4, "z", CameraStep) ELSE s4
        s6 == IF key = "A" /\ action = "PRESS"
              THEN MoveEye(s5, "x", -CameraStep) ELSE s5
        s7 == IF key = "D" /\ action = "PRESS"
              THEN MoveEye(s6, "x", CameraStep) ELSE s6
    IN  s7

----------------------------------------------------------------------------
\* GLCall, CompileShader, CreateShader

Files == {"Cube.shader", "Axes.shader"}
Stages == {"vertex", "fragment"}

\* GLCall(x): when x raised a GL error, GLLogCall returns false and ASSERT
\* executes raise(SIGTRAP).  The signal ends the process unless a debugger
\* intercepts it and resumes; then execution continues after the macro.
GLCall(err, next) == IF err /\ ~trapResumes THEN "killed" ELSE next

GLErrorLine(err, call) == IF err THEN {"[OpenGL Error] " \o call} ELSE {}

\* CompileShader(type, source) with id the name glCreateShader returned:
\* 0 when GL_COMPILE_STATUS is GL_FALSE, else id.
CompileShader(type, file, id) == IF compiles[file][type] THEN id ELSE 0

CompileLog(type, file) ==
    IF compiles[file][type] THEN {} ELSE {"Failed to compile " \o type \o " shader!"}

\* CreateShader(vertexShader, fragmentShader) on the two sections of file.
\* glAttachShader(program, 0) raises GL_INVALID_VALUE; glDeleteShader(0) is
\* silently ignored; a program with a missing stage does not link.
CreateShader(file) ==
    LET program == nextId
        vs == CompileShader("vertex", file, nextId + 1)
        fs == CompileShader("fragment", file, nextId + 2)
    IN  [program |-> program, vs |-> vs, fs |-> fs,
         err |-> (vs = 0 \/ fs = 0),
         links |-> (vs # 0 /\ fs # 0),
         out |-> CompileLog("vertex", file) \cup CompileLog("fragment", file)
                 \cup GLErrorLine(vs = 0 \/ fs = 0, "glAttachShader")]

----------------------------------------------------------------------------
\* main: start-up

Init ==
    /\ pc = "glfwInit"
    /\ exitCode = 0
    /\ failed = "none"
    /\ glfw = "uninit"
    /\ window = FALSE
    /\ shouldClose = FALSE
    /\ trapResumes \in BOOLEAN
    /\ compiles \in [Files -> [Stages -> BOOLEAN]]
    /\ nextId = 1
    /\ programs = {}
    /\ linked = {}
    /\ stage = [vs |-> 0, fs |-> 0]
    /\ cubeShader = 0
    /\ axesShader = 0
    /\ pyramidShader = 0
    /\ eye = Eye0
    /\ view = LookAt(Eye0, Origin, Up)
    /\ cubeMvp = Mul3(Proj, LookAt(Eye0, Origin, Up), CubeModel)
    /\ pyramidMvp = Mul3(Proj, LookAt(Eye0, Origin, Up), PyramidModel)
    /\ axesMvp = Mul2(Proj, LookAt(Eye0, Origin, Up))
    /\ frame = <<>>
    /\ nEvents = 0
    /\ log = {}
    /\ pstream = <<>>
    /\ ppos = 0
    /\ ptype = NONE
    /\ pss = [i \in {VERTEX, FRAGMENT} |-> <<>>]
    /\ poob = FALSE
    /\ ppc = "idle"
    /\ pret = [VertexSource |-> <<>>, FragmentSource |-> <<>>]

glState == <<nextId, programs, linked, stage, cubeShader, axesShader, pyramidShader>>
camera == <<eye, view, shouldClose, nEvents>>
mvps == <<cubeMvp, pyramidMvp, axesMvp>>
env == <<trapResumes, compiles>>

\* if (!glfwInit()) return -1;
GlfwInit ==
    /\ pc = "glfwInit"
    /\ \E ok \in BOOLEAN :
         IF ok THEN /\ glfw' = "init"
                    /\ pc' = "createWindow"
                    /\ UNCHANGED <<exitCode, failed>>
               ELSE /\ glfw' = glfw
                    /\ failed' = "glfwInit"
                    /\ pc' = "exited"
                    /\ exitCode' = -1
    /\ UNCHANGED <<window, glState, camera, mvps, env, frame, log, parseVars>>

\* window = glfwCreateWindow(...); if (!window) { glfwTerminate(); return -1; }
\* glfwSetKeyCallback; glfwMakeContextCurrent; glfwSwapInterval(1);
CreateWindow ==
    /\ pc = "createWindow"
    /\ \E ok \in BOOLEAN :
         IF ok THEN /\ window' = TRUE
                    /\ glfw' = glfw
                    /\ pc' = "glewInit"
                    /\ UNCHANGED <<exitCode, failed>>
               ELSE /\ window' = window
                    /\ glfw' = "terminated"
                    /\ failed' = "glfwCreateWindow"
                    /\ pc' = "exited"
                    /\ exitCode' = -1
    /\ UNCHANGED <<glState, camera, mvps, env, frame, log, parseVars>>

\* Mutant of GlewInit: the failure is logged but main does not return.
GlewInitNoReturn ==
    /\ pc = "glewInit"
    /\ \E ok \in BOOLEAN :
         IF ok THEN /\ pc' = "geometry"
                    /\ UNCHANGED <<exitCode, failed, log>>
               ELSE /\ failed' = "glewInit"
                    /\ pc' = "geometry"
                    /\ exitCode' = exitCode
                    /\ log' = log \cup {"Error initializing GLEW!"}
    /\ UNCHANGED <<glfw, window, glState, camera, mvps, env, frame, parseVars>>

\* if (glewInit() != GLEW_OK) { cout << "Error initializing GLEW!"; return -1; }
GlewInit ==
    /\ pc = "glewInit"
    /\ \E ok \in BOOLEAN :
         IF ok THEN /\ pc' = "geometry"
                    /\ UNCHANGED <<exitCode, failed, log>>
               ELSE /\ failed' = "glewInit"
                    /\ pc' = "exited"
                    /\ exitCode' = -1
                    /\ log' = log \cup {"Error initializing GLEW!"}
    /\ UNCHANGED <<glfw, window, glState, camera, mvps, env, frame, parseVars>>

\* glEnable(GL_DEPTH_TEST) and the three vertex arrays with their buffers.
UploadGeometry ==
    /\ pc = "geometry"
    /\ pc' = GLCall(FALSE, "shaderCube")
    /\ UNCHANGED <<exitCode, failed, glfw, window, glState, camera, mvps, env, frame,
                   log, parseVars>>

\* What one call of CreateShader leaves behind, apart from the handle the
\* caller assigns: program exists from glCreateProgram on, whatever follows.
CreateShaderCall(r, next) ==
    /\ pc' = GLCall(r.err, next)
    /\ nextId' = nextId + 3
    /\ programs' = programs \cup {r.program}
    /\ linked' = IF r.links /\ GLCall(r.err, next) = next
                 THEN linked \cup {r.program} ELSE linked
    /\ stage' = [vs |-> r.vs, fs |-> r.fs]
    /\ log' = log \cup r.out
    /\ UNCHANGED <<exitCode, failed, glfw, window, camera, mvps, env, frame, parseVars>>

\* The value CreateShader returns.
CreateShaderReturn(r) == r.program

\* srcCube = ParseShader("res/shaders/Cube.shader"); cubeShader = CreateShader(...)
CreateCubeShader ==
    /\ pc = "shaderCube"
    /\ LET r == CreateShader("Cube.shader") IN
         /\ CreateShaderCall(r, "shaderAxes")
         /\ cubeShader' = IF pc' = "killed" THEN cubeShader ELSE CreateShaderReturn(r)
    /\ UNCHANGED <<axesShader, pyramidShader>>

\* srcAxes = ParseShader("res/shaders/Axes.shader"); axesShader = CreateShader(...)
CreateAxesShader ==
    /\ pc = "shaderAxes"
    /\ LET r == CreateShader("Axes.shader") IN
         /\ CreateShaderCall(r, "shaderPyramid")
         /\ axesShader' = IF pc' = "killed" THEN axesShader ELSE CreateShaderReturn(r)
    /\ UNCHANGED <<cubeShader, pyramidShader>>

\* srcPyramid = ParseShader("res/shaders/Cube.shader"); pyramidShader = CreateShader(...)
CreatePyramidShader ==
    /\ pc = "shaderPyramid"
    /\ LET r == CreateShader("Cube.shader") IN
         /\ CreateShaderCall(r, "matrices")
         /\ pyramidShader' = IF pc' = "killed" THEN pyramidShader
                             ELSE CreateShaderReturn(r)
    /\ UNCHANGED <<cubeShader, axesShader>>

\* proj, the model matrices, the three MVPs and the two uniform locations.
SetupMatrices ==
    /\ pc = "matrices"
    /\ cubeMvp' = Mul3(Proj, view, CubeModel)
    /\ pyramidMvp' = Mul3(Proj, view, PyramidModel)
    /\ axesMvp' = Mul2(Proj, view)
    /\ pc' = "loop"
    /\ UNCHANGED <<exitCode, failed, glfw, window, glState, camera, env, frame, log,
                   parseVars>>

----------------------------------------------------------------------------
\* main: the render loop

Call(op) == [op |-> op]
UseProgram(p) == [op |-> "glUseProgram", program |-> p]
BindVertexArray(vao) == [op |-> "glBindVertexArray", vao |-> vao]
UniformMatrix(m) == [op |-> "glUniformMatrix4fv", mvp |-> m]
Uniform4f(color) == [op |-> "glUniform4f", color |-> color]
DrawElements(count) == [op |-> "glDrawElements", count |-> count]
DrawArrays(first, count) == [op |-> "glDrawArrays", first |-> first, count |-> count]

\* glUseProgram(p) raises GL_INVALID_OPERATION when p did not link.
UseError(p) == p \notin linked

\* Mutant of LoopTest: the close flag is not consulted.
LoopTestIgnoresFlag ==
    /\ pc = "loop"
    /\ pc' = "clear"
    /\ UNCHANGED <<exitCode, failed, glfw, window, glState, camera, mvps, env, frame,
                   log, parseVars>>

\* while (!glfwWindowShouldClose(window))
LoopTest ==
    /\ pc = "loop"
    /\ pc' = IF ~shouldClose THEN "clear" ELSE "cleanup"
    /\ UNCHANGED <<exitCode, failed, glfw, window, glState, camera, mvps, env, frame,
                   log, parseVars>>

\* GLCall(glClear(GL_COLOR_BUFFER_BIT | GL_DEPTH_BUFFER_BIT))
Clear ==
    /\ pc = "clear"
    /\ frame' = <<Call("glClear")>>
    /\ pc' = GLCall(FALSE, "cube")
    /\ UNCHANGED <<exitCode, failed, glfw, window, glState, camera, mvps, env, log,
                   parseVars>>

\* cubeMvp = proj * view * cubeModel; use, bind, upload, glDrawElements(36)
DrawCube ==
    /\ pc = "cube"
    /\ cubeMvp' = Mul3(Proj, view, CubeModel)
    /\ frame' = frame \o <<UseProgram(cubeShader), BindVertexArray("cubeVao"),
                           UniformMatrix(cubeMvp'), DrawElements(CubeIndexCount)>>
    /\ pc' = GLCall(UseError(cubeShader), "pyramid")
    /\ log' = log \cup GLErrorLine(UseError(cubeShader), "glUseProgram")
    /\ UNCHANGED <<exitCode, failed, glfw, window, glState, camera, pyramidMvp, axesMvp,
                   env, parseVars>>

\* Mutant of DrawPyramid: the cube's index count is used.
DrawPyramidCubeCount ==
    /\ pc = "pyramid"
    /\ pyramidMvp' = Mul3(Proj, view, PyramidModel)
    /\ frame' = frame \o <<UseProgram(pyramidShader), BindVertexArray("pyramidVao"),
                           UniformMatrix(pyramidMvp'),
                           DrawElements(CubeIndexCount)>>
    /\ pc' = GLCall(UseError(pyramidShader), "axes")
    /\ log' = log \cup GLErrorLine(UseError(pyramidShader), "glUseProgram")
    /\ UNCHANGED <<exitCode, failed, glfw, window, glState, camera, cubeMvp, axesMvp,
                   env, parseVars>>

\* pyramidMvp = proj * view * pyramidModel; use, bind, upload, glDrawElements(18)
DrawPyramid ==
    /\ pc = "pyramid"
    /\ pyramidMvp' = Mul3(Proj, view, PyramidModel)
    /\ frame' = frame \o <<UseProgram(pyramidShader), BindVertexArray("pyramidVao"),
                           UniformMatrix(pyramidMvp'),
                           DrawElements(PyramidIndexCount)>>
    /\ pc' = GLCall(UseError(pyramidShader), "axes")
    /\ log' = log \cup GLErrorLine(UseError(pyramidShader), "glUseProgram")
    /\ UNCHANGED <<exitCode, failed, glfw, window, glState, camera, cubeMvp, axesMvp,
                   env, parseVars>>

\* axesMvp = proj * view; use, bind, upload
BindAxes ==
    /\ pc = "axes"
    /\ axesMvp' = Mul2(Proj, view)
    /\ frame' = frame \o <<UseProgram(axesShader), BindVertexArray("axesVao"),
                           UniformMatrix(axesMvp')>>
    /\ pc' = GLCall(UseError(axesShader), "axisX")
    /\ log' = log \cup GLErrorLine(UseError(axesShader), "glUseProgram")
    /\ UNCHANGED <<exitCode, failed, glfw, window, glState, camera, cubeMvp, pyramidMvp,
                   env, parseVars>>

\* glUniform4f(colorLocation, ...); glDrawArrays(GL_LINES, first, 2)
DrawAxis(at, color, first, next) ==
    /\ pc = at
    /\ frame' = frame \o <<Uniform4f(color), DrawArrays(first, 2)>>
    /\ pc' = GLCall(UseError(axesShader), next)
    /\ log' = log \cup GLErrorLine(UseError(axesShader), "glUniform4f")
    /\ UNCHANGED <<exitCode, failed, glfw, window, glState, camera, mvps, env, parseVars>>

DrawAxisX == DrawAxis("axisX", "red", 0, "axisY")
DrawAxisY == DrawAxis("axisY", "green", 2, "axisZ")
DrawAxisZ == DrawAxis("axisZ", "blue", 4, "swap")

\* glfwSwapBuffers(window)
SwapBuffers ==
    /\ pc = "swap"
    /\ frame' = Append(frame, Call("glfwSwapBuffers"))
    /\ pc' = "poll"
    /\ UNCHANGED <<exitCode, failed, glfw, window, glState, camera, mvps, env, log,
                   parseVars>>

\* Inside glfwPollEvents: GLFW calls keyCallback(window, key, _, action, _)
\* for one pending key event.
DeliverKeyEvent(key, action) ==
    /\ pc = "poll"
    /\ nEvents < MaxEvents
    /\ LET s == keyCallback([shouldClose |-> shouldClose, eye |-> eye,
                             view |-> view], key, action)
       IN  /\ shouldClose' = s.shouldClose
           /\ eye' = s.eye
           /\ view' = s.view
    /\ nEvents' = nEvents + 1
    /\ UNCHANGED <<pc, exitCode, failed, glfw, window, glState, mvps, env, frame, log,
                   parseVars>>

DeliverKey == \E key \in Keys, action \in KeyActions : DeliverKeyEvent(key, action)

\* Inside glfwPollEvents: GLFW processes a close request of the window system.
DeliverClose ==
    /\ pc = "poll"
    /\ nEvents < MaxEvents
    /\ shouldClose' = TRUE
    /\ nEvents' = nEvents + 1
    /\ UNCHANGED <<pc, exitCode, failed, glfw, window, glState, eye, view, mvps, env,
                   frame, log, parseVars>>

\* glfwPollEvents returns: the event queue is drained.
PollReturn ==
    /\ pc = "poll"
    /\ frame' = Append(frame, Call("glfwPollEvents"))
    /\ pc' = "loop"
    /\ UNCHANGED <<exitCode, failed, glfw, window, glState, camera, mvps, env, log,
                   parseVars>>

\* glDeleteProgram(cubeShader); glDeleteProgram(pyramidShader);
\* glDeleteProgram(axesShader);
DeletePrograms ==
    /\ pc = "cleanup"
    /\ programs' = programs \ {cubeShader, pyramidShader, axesShader}
    /\ linked' = linked \ {cubeShader, pyramidShader, axesShader}
    /\ pc' = "terminate"
    /\ UNCHANGED <<exitCode, failed, glfw, window, nextId, stage, cubeShader, axesShader,
                   pyramidShader, camera, mvps, env, frame, log, parseVars>>

\* glfwTerminate(); return 0;
Terminate ==
    /\ pc = "terminate"
    /\ glfw' = "terminated"
    /\ window' = FALSE
    /\ pc' = "exited"
    /\ exitCode' = 0
    /\ UNCHANGED <<failed, glState, camera, mvps, env, frame, log, parseVars>>

Next ==
    \/ GlfwInit
    \/ CreateWindow
    \/ GlewInit
    \/ UploadGeometry
    \/ CreateCubeShader
    \/ CreateAxesShader
    \/ CreatePyramidShader
    \/ SetupMatrices
    \/ LoopTest
    \/ Clear
    \/ DrawCube
    \/ DrawPyramid
    \/ BindAxes
    \/ DrawAxisX
    \/ DrawAxisY
    \/ DrawAxisZ
    \/ SwapBuffers
    \/ DeliverKey
    \/ DeliverClose
    \/ PollReturn
    \/ DeletePrograms
    \/ Terminate

Spec == Init /\ [][Next]_vars

----------------------------------------------------------------------------
\* ParseShader

\* A line is the sequence of its words; a file is the sequence of its lines.
Lines == { <<"#shader", "vertex">>, <<"#shader", "fragment">>, <<"#shader">>,
           <<"void", "main">>, <<"//", "vertex">> }

StreamsOfLength(n) == [1..n -> Lines]
Streams == UNION { StreamsOfLength(n) : n \in 0..MaxLines }

\* line.find(word) != std::string::npos
Find(line, word) == \E i \in 1..Len(line) : line[i] = word

\* The type after a line that contains "#shader".
TagType(line, type) ==
    IF Find(line, "vertex") THEN VERTEX
    ELSE IF Find(line, "fragment") THEN FRAGMENT
    ELSE type

\* ss[type] << line << '\n' for type 0 or 1
AppendLine(ss, type, line) == [ss EXCEPT ![type] = @ \o line \o <<"\n">>]

\* The main process does not run while ParseShader is examined on its own.
ParseInit ==
    /\ pc = "parse"
    /\ exitCode = 0
    /\ failed = "none"
    /\ glfw = "uninit"
    /\ window = FALSE
    /\ shouldClose = FALSE
    /\ trapResumes = FALSE
    /\ compiles = [f \in Files |-> [t \in Stages |-> TRUE]]
    /\ nextId = 1
    /\ programs = {}
    /\ linked = {}
    /\ stage = [vs |-> 0, fs |-> 0]
    /\ cubeShader = 0
    /\ axesShader = 0
    /\ pyramidShader = 0
    /\ eye = Eye0
    /\ view = LookAt(Eye0, Origin, Up)
    /\ cubeMvp = Mul3(Proj, LookAt(Eye0, Origin, Up), CubeModel)
    /\ pyramidMvp = Mul3(Proj, LookAt(Eye0, Origin, Up), PyramidModel)
    /\ axesMvp = Mul2(Proj, LookAt(Eye0, Origin, Up))
    /\ frame = <<>>
    /\ nEvents = 0
    /\ log = {}
    /\ pstream \in Streams
    /\ ppos = 0
    /\ ptype = NONE
    /\ pss = [i \in {VERTEX, FRAGMENT} |-> <<>>]
    /\ poob = FALSE
    /\ ppc = "reading"
    /\ pret = [VertexSource |-> <<>>, FragmentSource |-> <<>>]

\* One iteration of while (getline(stream, line)) on a line with "#shader".
ReadTag ==
    /\ ppc = "reading"
    /\ ppos < Len(pstream)
    /\ Find(pstream[ppos + 1], "#shader")
    /\ ptype' = TagType(pstream[ppos + 1], ptype)
    /\ ppos' = ppos + 1
    /\ UNCHANGED <<pstream, pss, poob, ppc, pret, mainVars>>

\* One iteration on any other line, a section being active.
ReadLine ==
    /\ ppc = "reading"
    /\ ppos < Len(pstream)
    /\ ~Find(pstream[ppos + 1], "#shader")
    /\ ptype # NONE
    /\ pss' = AppendLine(pss, ptype, pstream[ppos + 1])
    /\ ppos' = ppos + 1
    /\ UNCHANGED <<pstream, ptype, poob, ppc, pret, mainVars>>

\* One iteration on any other line while type is NONE: ss[-1] << line << '\n'
\* indexes the two-element array ss below its first element, which is
\* undefined behaviour.  The write may change nothing the function reads
\* later, may end the process, or may land in a neighbouring object.
ReadLineNoSection ==
    /\ ppc = "reading"
    /\ ppos < Len(pstream)
    /\ ~Find(pstream[ppos + 1], "#shader")
    /\ ptype = NONE
    /\ poob' = TRUE
    /\ \/ /\ ppos' = ppos + 1
          /\ UNCHANGED <<pss, ppc>>
       \/ /\ ppc' = "crashed"
          /\ UNCHANGED <<pss, ppos>>
       \/ /\ \E t \in {VERTEX, FRAGMENT} :
               pss' = AppendLine(pss, t, pstream[ppos + 1])
          /\ ppos' = ppos + 1
          /\ UNCHANGED ppc
    /\ UNCHANGED <<pstream, ptype, pret, mainVars>>

\* getline fails at end of file: return { ss[0].str(), ss[1].str() }
ParseReturn ==
    /\ ppc = "reading"
    /\ ppos = Len(pstream)
    /\ pret' = [VertexSource |-> pss[VERTEX], FragmentSource |-> pss[FRAGMENT]]
    /\ ppc' = "returned"
    /\ UNCHANGED <<pstream, ppos, ptype, pss, poob, mainVars>>

ParseNext ==
    \/ ReadTag
    \/ ReadLine
    \/ ReadLineNoSection
    \/ ParseReturn

ParseSpec == ParseInit /\ [][ParseNext]_vars

----------------------------------------------------------------------------
\* Properties of ParseShader (checked under ParseSpec)

IsTagLine(line) == line[1] = "#shader"
TagIndexes(stream) == {i \in 1..Len(stream) : IsTagLine(stream[i])}
IndexesOf(stream, line) == {i \in 1..Len(stream) : stream[i] = line}
Least(S) == CHOOSE i \in S : \A j \in S : i <= j

\* The lines after line i up to the next tag line or the end of the file.
SectionAfter(stream, i) ==
    LET later == {j \in TagIndexes(stream) : j > i}
        last == IF later = {} THEN Len(stream) ELSE Least(later) - 1
    IN  SubSeq(stream, i + 1, last)

\* The lines, each followed by a newline.
RECURSIVE Text(_)
Text(lines) ==
    IF lines = <<>> THEN <<>>
    ELSE Head(lines) \o <<"\n">> \o Text(Tail(lines))

\* Exactly one "#shader vertex" line, exactly one "#shader fragment" line, no
\* other "#shader" line, and a non-tag line right after each of the two.
WellFormed(stream) ==
    /\ Cardinality(IndexesOf(stream, <<"#shader", "vertex">>)) = 1
    /\ Cardinality(IndexesOf(stream, <<"#shader", "fragment">>)) = 1
    /\ Cardinality(TagIndexes(stream)) = 2
    /\ \A i \in TagIndexes(stream) : i < Len(stream) /\ ~IsTagLine(stream[i + 1])

\* C1: a file without a tag line parses to two empty strings, and every line
\* read before the first tag line is discarded: it reaches neither section,
\* nothing outside the two section buffers is written, and the call returns.
C1_PreTagLinesDiscarded ==
    /\ ~poob
    /\ ppc # "crashed"
    /\ ptype = NONE => pss[VERTEX] = <<>> /\ pss[FRAGMENT] = <<>>
    /\ (ppc = "returned" /\ TagIndexes(pstream) = {}) =>
           pret = [VertexSource |-> <<>>, FragmentSource |-> <<>>]

\* C4: on a well-formed file ParseShader returns, as the vertex string, the
\* lines between the vertex tag and the next tag or the end of the file, each
\* followed by a newline, likewise the fragment string, and both are non-empty.
C4_WellFormedFileSplits ==
    WellFormed(pstream) =>
        /\ ppc # "crashed"
        /\ ppc = "returned" =>
             LET v == Least(IndexesOf(pstream, <<"#shader", "vertex">>))
                 f == Least(IndexesOf(pstream, <<"#shader", "fragment">>))
             IN  /\ pret.VertexSource = Text(SectionAfter(pstream, v))
                 /\ pret.FragmentSource = Text(SectionAfter(pstream, f))
                 /\ pret.VertexSource # <<>>
                 /\ pret.FragmentSource # <<>>

----------------------------------------------------------------------------
\* Properties of the shader program builder (checked under Spec)

\* CreateShader has been called and a stage of its last call failed to compile.
StageFailed == nextId > 1 /\ (stage.vs = 0 \/ stage.fs = 0)

\* What the claim requires of a handle h returned by CreateShader's last call.
ZeroOnFailure(h) ==
    /\ (stage.vs = 0 \/ stage.fs = 0) => h = 0
    /\ h # 0 => (stage.vs # 0 /\ stage.fs # 0)

\* C2: CreateShader returns 0 whenever the vertex or the fragment stage failed
\* to compile, and a non-zero handle only when both stages compiled.
C2_ZeroHandleOnCompileFailure ==
    /\ pc = "shaderAxes" => ZeroOnFailure(cubeShader)
    /\ pc = "shaderPyramid" => ZeroOnFailure(axesShader)
    /\ pc = "matrices" => ZeroOnFailure(pyramidShader)

\* C3: a stage that fails to compile during start-up is logged and does not
\* abort, trap or end the process.
C3_CompileFailureDoesNotStop ==
    StageFailed =>
        /\ pc # "killed"
        /\ \E t \in Stages : ("Failed to compile " \o t \o " shader!") \in log

----------------------------------------------------------------------------
\* Properties of the process (checked under Spec)

\* C8: when main returns after glfwInit succeeded, every program object that
\* was created has been deleted and glfwTerminate has been called.
C8_ExitGoesThroughTerminating ==
    (pc = "exited" /\ failed # "glfwInit") =>
        /\ glfw = "terminated"
        /\ programs = {}

\* C6: main returns 0 exactly when the loop was entered and left with the close
\* flag set, and -1 exactly when glfwInit, glfwCreateWindow or glewInit failed;
\* after such a failure the loop is never entered and nothing is drawn.
C6_ExitStatus ==
    /\ failed # "none" => (pc = "exited" /\ frame = <<>>)
    /\ pc = "exited" =>
         /\ exitCode \in {0, -1}
         /\ exitCode = 0 <=> (failed = "none" /\ frame # <<>> /\ shouldClose)
         /\ exitCode = -1 <=>
                failed \in {"glfwInit", "glfwCreateWindow", "glewInit"}

\* C6 witness: main has returned 0 after a close request ended the loop.
C6_Witness ==
    /\ pc = "exited"
    /\ exitCode = 0
    /\ shouldClose
    /\ frame # <<>>

----------------------------------------------------------------------------
\* Properties of the camera (checked under Spec)

MoveKeys == {"D", "A", "SPACE", "LEFT_CONTROL", "S", "W"}

\* The component a movement key changes and by how much, in units of 0.5.
KeyAxis(key) == IF key \in {"D", "A"} THEN "x"
                ELSE IF key \in {"SPACE", "LEFT_CONTROL"} THEN "y" ELSE "z"
KeyDelta(key) == IF key \in {"D", "SPACE", "S"} THEN 1 ELSE -1

\* C5: a press of a movement key changes exactly one eye component by exactly
\* 0.5 (D: x+, A: x-, Space: y+, Left-Ctrl: y-, S: z+, W: z-) and leaves the
\* other two unchanged; so n presses add n * 0.5 and a press of the opposite
\* key restores the position.
C5_PressMovesOneComponentByHalf ==
    [][\A key \in MoveKeys :
          DeliverKeyEvent(key, "PRESS") =>
              eye' = [eye EXCEPT ![KeyAxis(key)] = @ + KeyDelta(key)]]_vars

\* C5 witness: two presses of D, and nothing else, have been delivered.
C5_Witness ==
    /\ nEvents = 2
    /\ eye = Vec3(EyeX0 + 2, EyeY0, EyeZ0)

\* The views of the transforms uploaded in the current frame.
FrameViews == {frame[i].mvp.view :
                 i \in {j \in 1..Len(frame) : frame[j].op = "glUniformMatrix4fv"}}

\* C10: the global view always equals lookAt(eye, origin, up), and the cube,
\* the pyramid and the axes of a frame are drawn with transforms built from one
\* view, which while the frame is drawn is the current one.
C10_ViewNeverStale ==
    /\ view = LookAt(eye, Origin, Up)
    /\ Cardinality(FrameViews) <= 1
    /\ pc \in {"pyramid", "axes", "axisX", "axisY", "axisZ", "swap"} =>
           FrameViews = {view}

\* C10 witness: a frame drawn after a key press moved the camera.
C10_Witness ==
    /\ pc = "swap"
    /\ eye # Eye0
    /\ FrameViews = {LookAt(eye, Origin, Up)}

----------------------------------------------------------------------------
\* Properties of the render loop (checked under Spec)

\* A call without the handle or matrix it was given: <<op, colour, first, count>>.
Shape(c) ==
    IF c.op = "glDrawElements" THEN <<c.op, "", 0, c.count>>
    ELSE IF c.op = "glDrawArrays" THEN <<c.op, "", c.first, c.count>>
    ELSE IF c.op = "glUniform4f" THEN <<c.op, c.color, 0, 0>>
    ELSE IF c.op = "glBindVertexArray" THEN <<c.op, c.vao, 0, 0>>
    ELSE <<c.op, "", 0, 0>>

Shapes(calls) == [i \in 1..Len(calls) |-> Shape(calls[i])]

\* The calls of one frame, as the claim lists them.
FrameShape ==
    << <<"glClear", "", 0, 0>>,
       <<"glUseProgram", "", 0, 0>>, <<"glBindVertexArray", "cubeVao", 0, 0>>,
       <<"glUniformMatrix4fv", "", 0, 0>>, <<"glDrawElements", "", 0, 36>>,
       <<"glUseProgram", "", 0, 0>>, <<"glBindVertexArray", "pyramidVao", 0, 0>>,
       <<"glUniformMatrix4fv", "", 0, 0>>, <<"glDrawElements", "", 0, 18>>,
       <<"glUseProgram", "", 0, 0>>, <<"glBindVertexArray", "axesVao", 0, 0>>,
       <<"glUniformMatrix4fv", "", 0, 0>>,
       <<"glUniform4f", "red", 0, 0>>, <<"glDrawArrays", "", 0, 2>>,
       <<"glUniform4f", "green", 0, 0>>, <<"glDrawArrays", "", 2, 2>>,
       <<"glUniform4f", "blue", 0, 0>>, <<"glDrawArrays", "", 4, 2>>,
       <<"glfwSwapBuffers", "", 0, 0>>,
       <<"glfwPollEvents", "", 0, 0>> >>

IsPrefix(a, b) == Len(a) <= Len(b) /\ a = SubSeq(b, 1, Len(a))

\* C7: every iteration issues the same calls in the same order: clear, the
\* cube with 36 indices, the pyramid with 18, the three axis lines at vertex 0,
\* 2 and 4, each after its colour (red, green, blue), then swap, then poll.
C7_SameCallsEveryFrame ==
    /\ IsPrefix(Shapes(frame), FrameShape)
    /\ pc = "swap" => Len(frame) = Len(FrameShape) - 2
    /\ pc = "poll" => Len(frame) = Len(FrameShape) - 1
    /\ (pc \in {"loop", "clear", "cleanup", "terminate", "exited"}
        /\ frame # <<>>) => Shapes(frame) = FrameShape

\* C7 witness: a frame after the first one is complete (the camera was moved
\* by the events of an earlier frame).
C7_Witness ==
    /\ pc = "swap"
    /\ nEvents > 0
    /\ Shapes(frame) = SubSeq(FrameShape, 1, Len(FrameShape) - 2)

Running == {"loop", "clear", "cube", "pyramid", "axes", "axisX", "axisY",
            "axisZ", "swap", "poll"}

\* The clears and draws among calls.
Drawn(calls) ==
    SelectSeq(calls, LAMBDA c : c.op \in {"glClear", "glDrawElements", "glDrawArrays"})

\* The process runs on: main's one thread takes its next step, and
\* glfwPollEvents returns once the pending events are delivered.
LiveSpec == Spec /\ WF_vars(Next)

\* Step by step: the flag stays set; with it set nothing more is cleared or
\* drawn and the loop test leaves the loop; without it the loop is not left;
\* after the loop the programs are deleted, GLFW is terminated, 0 is returned.
CloseFlagSteps ==
    [][/\ shouldClose => shouldClose'
       /\ shouldClose => (Drawn(frame') = Drawn(frame)
                          /\ pc' \in {"poll", "loop", "cleanup", "terminate", "exited"})
       /\ (pc = "loop" /\ shouldClose) => pc' = "cleanup"
       /\ (pc \in Running /\ ~shouldClose) => pc' \in Running
       /\ (pc = "cleanup" => pc' = "terminate" /\ programs' = {})
       /\ (pc = "terminate" =>
              pc' = "exited" /\ exitCode' = 0 /\ glfw' = "terminated")]_vars

\* C9: once the close flag is set it stays set, nothing more is cleared or
\* drawn, the next loop test leaves the loop, and main then deletes the three
\* programs, terminates GLFW and returns 0; while the flag is not set the loop
\* is not left.
C9_CloseFlagEndsLoop ==
    /\ CloseFlagSteps
    /\ shouldClose ~> (pc = "exited" /\ exitCode = 0 /\ programs = {})

\* C9 witness: main has returned after Escape or a close request set the flag.
C9_Witness ==
    /\ pc = "exited"
    /\ shouldClose
    /\ exitCode = 0
    /\ programs = {}
    /\ glfw = "terminated"

====
